---- MODULE Spec2Model ----
(***************************************************************************)
(* Model of train.py: the train/validation split (data_split) and the      *)
(* training loop train_model (epochs, training batches, validation,        *)
(* per-epoch checkpoint).                                                   *)
(*                                                                         *)
(* Abstractions.  A batch is represented by the loss the model's forward   *)
(* pass yields for it (a scripted model).  Model parameters and gradients  *)
(* are integers: backward() adds the batch's gradient (one unit per unit   *)
(* of loss) to grads, optimizer.step() moves params by lr * grads.  The    *)
(* learning rate is the rational lr.num / lr.den, in units of the          *)
(* configured initial rate.  An average is the rational num / den.         *)
(***************************************************************************)
EXTENDS Integers, Sequences, FiniteSets, TLC

\* ---- bounds of the model
MaxEpochs == 2
MaxTrain == 2
MaxVal == 1
MaxLoss == 2
MaxData == 10

\* ---- program constants
LogInterval == 200
NumWarmupSteps == 0

VARIABLES
    data, train_data, val_data,
    epochs, train_loader, val_loader,
    pc, epoch, i, pending, vpos, batch, loss,
    train_loss, val_loss, avg_train_loss, avg_val_loss,
    mode, grad_enabled,
    params, grads, optSteps,
    num_training_steps, last_epoch, lr,
    generateCalls, trace,
    fs, error, raisedAt, run

splitVars == <<data, train_data, val_data>>
callVars == <<epochs, train_loader, val_loader>>
loopVars == <<epoch, i, pending, vpos, batch, loss>>
lossVars == <<train_loss, val_loss, avg_train_loss, avg_val_loss>>
modelVars == <<mode, grad_enabled, params, grads, optSteps>>
schedVars == <<num_training_steps, last_epoch, lr>>
vars == <<data, train_data, val_data, epochs, train_loader, val_loader,
          pc, epoch, i, pending, vpos, batch, loss,
          train_loss, val_loss, avg_train_loss, avg_val_loss,
          mode, grad_enabled, params, grads, optSteps,
          num_training_steps, last_epoch, lr,
          generateCalls, trace, fs, error, raisedAt, run>>

\* ---- helpers
Max(a, b) == IF a >= b THEN a ELSE b

RECURSIVE SumSeq(_)
SumSeq(s) == IF s = <<>> THEN 0 ELSE s[1] + SumSeq(Tail(s))

SeqsUpTo(S, lo, hi) == UNION {[1..n -> S] : n \in lo..hi}

Samples == {"a", "b"}
Batches == 1..MaxLoss
\* a file is the sequence of its contents: <<>> while it does not exist
NoFile == <<>>
\* a Python name not yet bound: no batch, no loss, no quotient
NoBatch == 0
NoLoss == 0
NoQuotient == [num |-> 0, den |-> 0]

\* ---- data_split (lines 32-34): Python slicing data[:k], data[k:]
Slice(s, from, to) == [k \in 1..(to - from) |-> s[from + k]]

\* variant: the validation part taken from the head of the data
data_split_head(d) ==
    LET split_index == Len(d) \div 10
    IN  <<Slice(d, split_index, Len(d)), Slice(d, 0, split_index)>>

data_split(d) ==
    LET split_index == Len(d) - (Len(d) \div 10)
    IN  <<Slice(d, 0, split_index), Slice(d, split_index, Len(d))>>

\* ---- the shuffled training loader: the batches not yet served this epoch
BagOf(s) == [b \in Batches |-> Cardinality({k \in DOMAIN s : s[k] = b})]
BagSize(bag) == SumSeq([b \in Batches |-> bag[b]])

\* ---- the linear schedule with warmup of get_scheduler("linear")
lr_lambda(current_step, total) ==
    IF current_step < NumWarmupSteps
    THEN [num |-> current_step, den |-> Max(1, NumWarmupSteps)]
    ELSE [num |-> Max(0, total - current_step),
          den |-> Max(1, total - NumWarmupSteps)]

\* variant: the step budget of a single epoch
NumTrainingStepsOneEpoch(e, loader) == Len(loader)

NumTrainingSteps(e, loader) == e * Len(loader)

\* ---- the model's forward pass on a scripted batch, and its gradient
ForwardLoss(b) == b
Gradient(l) == l

\* ---- checkpoint directory of an epoch: ./model_checkpoints/epoch_{epoch+1}
\* variant: directories numbered from zero
OutputDirZeroBased(e) == e

\* variant: every epoch writes to the first directory
OutputDirFixed(e) == 1

OutputDir(e) == e + 1

\* variant: the batch index counted from one
IsDiagnosticBatchOneBased(idx) == (idx + 1) % LogInterval = 0

IsDiagnosticBatch(idx) == idx % LogInterval = 0

\* variant: the accumulator carried over from the epoch before
KeepTrainLoss(prev) == prev

\* line 84: the accumulator of a new epoch, given the one of the epoch before
ResetTrainLoss(prev) == 0

Div(a, b) == [num |-> a, den |-> b]

\* ---- the calls of train_model the model explores: a training loader is
\* ---- never empty (data_split of a non-empty dataset keeps at least one
\* ---- training sample), a validation loader may be; one training loader is
\* ---- longer than the diagnostic interval
LongLoader == [k \in 1..(LogInterval + 1) |-> 1]
TrainLoaders == SeqsUpTo(Batches, 1, MaxTrain) \cup {LongLoader}
ValLoaders == SeqsUpTo(Batches, 0, MaxVal)
\* every short dataset, and three long enough for a validation part of
\* two and three samples
LongData(n) == [k \in 1..n |-> IF k % 3 = 0 THEN "a" ELSE "b"]
DataSets == SeqsUpTo(Samples, 1, MaxData) \cup {LongData(n) : n \in {20, 29, 30}}

\* the state of a process that has not yet called train_model
Fresh(e, tl, vl, files, r, at) ==
    /\ epochs = e /\ train_loader = tl /\ val_loader = vl
    /\ pc = at
    /\ epoch = -1 /\ i = -1 /\ pending = BagOf(<<>>) /\ vpos = 0
    /\ batch = NoBatch /\ loss = NoLoss
    /\ train_loss = 0 /\ val_loss = 0
    /\ avg_train_loss = NoQuotient /\ avg_val_loss = NoQuotient
    /\ mode = "eval" /\ grad_enabled = TRUE
    /\ params = 0 /\ grads = 0 /\ optSteps = 0
    /\ num_training_steps = 0 /\ last_epoch = 0 /\ lr = NoQuotient
    /\ generateCalls = 0 /\ trace = <<>>
    /\ fs = files /\ error = "none" /\ raisedAt = "none" /\ run = r

EmptyFs == [k \in {} |-> [model |-> NoFile, processor |-> NoFile]]

Init ==
    /\ data = <<>> /\ train_data = <<>> /\ val_data = <<>>
    /\ \E e \in 1..MaxEpochs, tl \in TrainLoaders, vl \in ValLoaders :
          /\ (Len(tl) > MaxTrain => vl = <<1>>)
          /\ Fresh(e, tl, vl, EmptyFs, 1, "setup")

\* ---- train_model, lines 72-73: optimizer, step budget
Setup ==
    /\ pc = "setup"
    /\ num_training_steps' = NumTrainingSteps(epochs, train_loader)
    /\ pc' = "get_scheduler"
    /\ UNCHANGED <<splitVars, callVars, loopVars, lossVars, modelVars,
                   last_epoch, lr, generateCalls, trace, fs, error,
                   raisedAt, run>>

\* ---- lines 74-79: the scheduler sets the rate of step 0
GetScheduler ==
    /\ pc = "get_scheduler"
    /\ last_epoch' = 0
    /\ lr' = lr_lambda(0, num_training_steps)
    /\ pc' = "for_epoch"
    /\ UNCHANGED <<splitVars, callVars, loopVars, lossVars, modelVars,
                   num_training_steps, generateCalls, trace, fs, error,
                   raisedAt, run>>

\* ---- line 81: next epoch, or return
ForEpoch ==
    /\ pc = "for_epoch"
    /\ IF epoch + 1 < epochs
       THEN /\ epoch' = epoch + 1
            /\ pc' = "model_train"
       ELSE /\ pc' = "done"
            /\ UNCHANGED epoch
    /\ UNCHANGED <<splitVars, callVars, i, pending, vpos, batch, loss,
                   lossVars, modelVars, schedVars,
                   generateCalls, trace, fs, error, raisedAt, run>>

\* ---- lines 83-85: train mode, accumulator and batch index of the epoch;
\* ---- the loader of line 86 starts a new shuffled pass
ModelTrain ==
    /\ pc = "model_train"
    /\ mode' = "train"
    /\ train_loss' = ResetTrainLoss(train_loss)
    /\ i' = -1
    /\ pending' = BagOf(train_loader)
    /\ pc' = "train_iter"
    /\ UNCHANGED <<splitVars, callVars, epoch, vpos, batch, loss,
                   val_loss, avg_train_loss, avg_val_loss,
                   grad_enabled, params, grads, optSteps, schedVars,
                   generateCalls, trace, fs, error, raisedAt, run>>

\* ---- lines 86-91: the shuffled loader yields a batch not yet served
TrainIter ==
    /\ pc = "train_iter"
    /\ IF BagSize(pending) > 0
       THEN \E b \in Batches :
               /\ pending[b] > 0
               /\ pending' = [pending EXCEPT ![b] = @ - 1]
               /\ batch' = b
               /\ i' = i + 1
               /\ trace' = <<>>
               /\ pc' = "labels"
       ELSE /\ pc' = "avg_train"
            /\ UNCHANGED <<pending, batch, i, trace>>
    /\ UNCHANGED <<splitVars, callVars, epoch, vpos, loss, lossVars, modelVars,
                   schedVars, generateCalls, fs, error, raisedAt, run>>

\* ---- lines 92-97: the answers tokenized into labels
Labels ==
    /\ pc = "labels"
    /\ pc' = "forward"
    /\ UNCHANGED <<splitVars, callVars, loopVars, lossVars, modelVars,
                   schedVars, generateCalls, trace, fs, error, raisedAt, run>>

\* ---- lines 99-102
Forward ==
    /\ pc = "forward"
    /\ loss' = ForwardLoss(batch)
    /\ trace' = Append(trace, "forward")
    /\ pc' = "diag"
    /\ UNCHANGED <<splitVars, callVars, epoch, i, pending, vpos, batch, lossVars,
                   modelVars, schedVars, generateCalls, fs, error, raisedAt, run>>

\* ---- line 104: is the diagnostic due
Diagnostic ==
    /\ pc = "diag"
    /\ pc' = IF IsDiagnosticBatch(i) THEN "print_loss" ELSE "backward"
    /\ UNCHANGED <<splitVars, callVars, loopVars, lossVars, modelVars,
                   schedVars, generateCalls, trace, fs, error, raisedAt, run>>

\* ---- line 105: print(loss)
PrintLoss ==
    /\ pc = "print_loss"
    /\ pc' = "generate"
    /\ UNCHANGED <<splitVars, callVars, loopVars, lossVars, modelVars,
                   schedVars, generateCalls, trace, fs, error, raisedAt, run>>

\* ---- lines 107-112: beam-search generation
Generate ==
    /\ pc = "generate"
    /\ generateCalls' = generateCalls + 1
    /\ pc' = "decode"
    /\ UNCHANGED <<splitVars, callVars, loopVars, lossVars, modelVars,
                   schedVars, trace, fs, error, raisedAt, run>>

\* ---- lines 113-127: decode, post-process, print GT and Pred
Decode ==
    /\ pc = "decode"
    /\ trace' = Append(trace, "diagnostic")
    /\ pc' = "backward"
    /\ UNCHANGED <<splitVars, callVars, loopVars, lossVars, modelVars,
                   schedVars, generateCalls, fs, error, raisedAt, run>>

\* ---- line 129
Backward ==
    /\ pc = "backward"
    /\ grads' = grads + Gradient(loss)
    /\ trace' = Append(trace, "backward")
    /\ pc' = "opt_step"
    /\ UNCHANGED <<splitVars, callVars, loopVars, lossVars, mode, grad_enabled,
                   params, optSteps, schedVars, generateCalls, fs, error,
                   raisedAt, run>>

\* ---- line 130
OptimizerStep ==
    /\ pc = "opt_step"
    /\ params' = params - lr.num * grads
    /\ optSteps' = optSteps + 1
    /\ trace' = Append(trace, "optimizer.step")
    /\ pc' = "sched_step"
    /\ UNCHANGED <<splitVars, callVars, loopVars, lossVars, mode, grad_enabled,
                   grads, schedVars, generateCalls, fs, error, raisedAt, run>>

\* ---- line 131
SchedulerStep ==
    /\ pc = "sched_step"
    /\ last_epoch' = last_epoch + 1
    /\ lr' = lr_lambda(last_epoch + 1, num_training_steps)
    /\ trace' = Append(trace, "lr_scheduler.step")
    /\ pc' = "zero_grad"
    /\ UNCHANGED <<splitVars, callVars, loopVars, lossVars, modelVars,
                   num_training_steps, generateCalls, fs, error, raisedAt, run>>

\* variant: gradients left in place
ZeroGradSkipped ==
    /\ pc = "zero_grad"
    /\ trace' = Append(trace, "zero_grad")
    /\ pc' = "accumulate"
    /\ UNCHANGED <<splitVars, callVars, loopVars, lossVars, modelVars,
                   schedVars, generateCalls, fs, error, raisedAt, run>>

\* ---- line 132
ZeroGrad ==
    /\ pc = "zero_grad"
    /\ grads' = 0
    /\ trace' = Append(trace, "zero_grad")
    /\ pc' = "accumulate"
    /\ UNCHANGED <<splitVars, callVars, loopVars, lossVars, mode, grad_enabled,
                   params, optSteps, schedVars, generateCalls, fs, error,
                   raisedAt, run>>

\* ---- line 134
Accumulate ==
    /\ pc = "accumulate"
    /\ train_loss' = train_loss + loss
    /\ trace' = Append(trace, "accumulate")
    /\ pc' = "train_iter"
    /\ UNCHANGED <<splitVars, callVars, loopVars, val_loss, avg_train_loss,
                   avg_val_loss, modelVars, schedVars, generateCalls, fs,
                   error, raisedAt, run>>

\* ---- line 136: float division, ZeroDivisionError on an empty loader
AvgTrain ==
    /\ pc = "avg_train"
    /\ IF Len(train_loader) = 0
       THEN /\ error' = "ZeroDivisionError"
            /\ raisedAt' = pc
            /\ pc' = "aborted"
            /\ UNCHANGED avg_train_loss
       ELSE /\ avg_train_loss' = Div(train_loss, Len(train_loader))
            /\ pc' = "print_avg_train"
            /\ UNCHANGED <<error, raisedAt>>
    /\ UNCHANGED <<splitVars, callVars, loopVars, train_loss, val_loss,
                   avg_val_loss, modelVars, schedVars, generateCalls, trace,
                   fs, run>>

\* ---- line 137: print of the average training loss
PrintAvgTrain ==
    /\ pc = "print_avg_train"
    /\ pc' = "model_eval"
    /\ UNCHANGED <<splitVars, callVars, loopVars, lossVars, modelVars,
                   schedVars, generateCalls, trace, fs, error, raisedAt, run>>

\* ---- lines 140-141: eval mode, validation accumulator
ModelEval ==
    /\ pc = "model_eval"
    /\ mode' = "eval"
    /\ val_loss' = 0
    /\ pc' = "no_grad"
    /\ UNCHANGED <<splitVars, callVars, loopVars,
                   train_loss, avg_train_loss, avg_val_loss, grad_enabled,
                   params, grads, optSteps, schedVars, generateCalls, trace,
                   fs, error, raisedAt, run>>

\* ---- lines 142-143: the no_grad region entered, the validation loader
\* ---- starts a pass
NoGrad ==
    /\ pc = "no_grad"
    /\ grad_enabled' = FALSE
    /\ vpos' = 0
    /\ pc' = "val_iter"
    /\ UNCHANGED <<splitVars, callVars, epoch, i, pending, batch, loss,
                   lossVars, mode, params, grads, optSteps, schedVars,
                   generateCalls, trace, fs, error, raisedAt, run>>

\* ---- lines 143-149: the validation loader yields its batches in order;
\* ---- leaving the loop leaves the no_grad region
ValIter ==
    /\ pc = "val_iter"
    /\ IF vpos < Len(val_loader)
       THEN /\ batch' = val_loader[vpos + 1]
            /\ vpos' = vpos + 1
            /\ pc' = "val_labels"
            /\ UNCHANGED grad_enabled
       ELSE /\ grad_enabled' = TRUE
            /\ pc' = "avg_val"
            /\ UNCHANGED <<batch, vpos>>
    /\ UNCHANGED <<splitVars, callVars, epoch, i, pending, loss, lossVars,
                   mode, params, grads, optSteps, schedVars, generateCalls,
                   trace, fs, error, raisedAt, run>>

\* ---- lines 150-155: the answers tokenized into labels
ValLabels ==
    /\ pc = "val_labels"
    /\ pc' = "val_forward"
    /\ UNCHANGED <<splitVars, callVars, loopVars, lossVars, modelVars,
                   schedVars, generateCalls, trace, fs, error, raisedAt, run>>

\* ---- lines 157-160
ValForward ==
    /\ pc = "val_forward"
    /\ loss' = ForwardLoss(batch)
    /\ pc' = "val_accumulate"
    /\ UNCHANGED <<splitVars, callVars, epoch, i, pending, vpos, batch, lossVars,
                   modelVars, schedVars, generateCalls, trace, fs, error,
                   raisedAt, run>>

\* variant: the scheduler stepped in the validation loop too
ValAccumulateStepping ==
    /\ pc = "val_accumulate"
    /\ val_loss' = val_loss + loss
    /\ last_epoch' = last_epoch + 1
    /\ lr' = lr_lambda(last_epoch + 1, num_training_steps)
    /\ pc' = "val_iter"
    /\ UNCHANGED <<splitVars, callVars, loopVars, train_loss, avg_train_loss,
                   avg_val_loss, modelVars, num_training_steps, generateCalls,
                   trace, fs, error, raisedAt, run>>

\* ---- line 162
ValAccumulate ==
    /\ pc = "val_accumulate"
    /\ val_loss' = val_loss + loss
    /\ pc' = "val_iter"
    /\ UNCHANGED <<splitVars, callVars, loopVars, train_loss, avg_train_loss,
                   avg_val_loss, modelVars, schedVars, generateCalls, trace,
                   fs, error, raisedAt, run>>

\* variant: an empty validation loader reported as an average of zero
AvgValGuarded ==
    /\ pc = "avg_val"
    /\ avg_val_loss' = Div(val_loss, Max(1, Len(val_loader)))
    /\ pc' = "print_avg_val"
    /\ UNCHANGED <<splitVars, callVars, loopVars, train_loss, val_loss,
                   avg_train_loss, modelVars, schedVars, generateCalls, trace,
                   fs, error, raisedAt, run>>

\* ---- line 164: float division, ZeroDivisionError on an empty loader
AvgVal ==
    /\ pc = "avg_val"
    /\ IF Len(val_loader) = 0
       THEN /\ error' = "ZeroDivisionError"
            /\ raisedAt' = pc
            /\ pc' = "aborted"
            /\ UNCHANGED avg_val_loss
       ELSE /\ avg_val_loss' = Div(val_loss, Len(val_loader))
            /\ pc' = "print_avg_val"
            /\ UNCHANGED <<error, raisedAt>>
    /\ UNCHANGED <<splitVars, callVars, loopVars, train_loss, val_loss,
                   avg_train_loss, modelVars, schedVars, generateCalls, trace,
                   fs, run>>

\* ---- line 165: print of the average validation loss
PrintAvgVal ==
    /\ pc = "print_avg_val"
    /\ pc' = "makedirs"
    /\ UNCHANGED <<splitVars, callVars, loopVars, lossVars, modelVars,
                   schedVars, generateCalls, trace, fs, error, raisedAt, run>>

\* ---- lines 168-169: os.makedirs(output_dir, exist_ok=True)
MakeDirs ==
    /\ pc = "makedirs"
    /\ fs' = IF OutputDir(epoch) \in DOMAIN fs
             THEN fs
             ELSE [k \in DOMAIN fs \cup {OutputDir(epoch)} |->
                     IF k \in DOMAIN fs THEN fs[k]
                     ELSE [model |-> NoFile, processor |-> NoFile]]
    /\ pc' = "save_model"
    /\ UNCHANGED <<splitVars, callVars, loopVars, lossVars, modelVars,
                   schedVars, generateCalls, trace, error, raisedAt, run>>

\* ---- line 170: model.save_pretrained(output_dir)
SaveModel ==
    /\ pc = "save_model"
    /\ fs' = [fs EXCEPT ![OutputDir(epoch)].model = <<params>>]
    /\ pc' = "save_processor"
    /\ UNCHANGED <<splitVars, callVars, loopVars, lossVars, modelVars,
                   schedVars, generateCalls, trace, error, raisedAt, run>>

\* ---- line 171: processor.save_pretrained(output_dir)
SaveProcessor ==
    /\ pc = "save_processor"
    /\ fs' = [fs EXCEPT ![OutputDir(epoch)].processor = <<"processor">>]
    /\ pc' = "for_epoch"
    /\ UNCHANGED <<splitVars, callVars, loopVars, lossVars, modelVars,
                   schedVars, generateCalls, trace, error, raisedAt, run>>

\* ---- an exception raised by a call of train_model: the statement at pc
\* ---- raises instead of completing.  There is no try/except in train_model
\* ---- or around its call, so the process ends
RaisePoints == {"setup", "get_scheduler", "model_train", "train_iter",
                "labels", "forward", "print_loss", "generate", "decode",
                "backward", "opt_step", "sched_step", "zero_grad",
                "accumulate", "print_avg_train", "model_eval", "no_grad",
                "val_iter", "val_labels", "val_forward", "val_accumulate",
                "print_avg_val", "makedirs", "save_model", "save_processor"}

\* ---- statements inside the with torch.no_grad() block of lines 142-162
NoGradRegion == {"val_iter", "val_labels", "val_forward", "val_accumulate"}

\* ---- gradient tracking once the exception has left the with block
GradEnabledAfterRaise == IF pc \in NoGradRegion THEN TRUE ELSE grad_enabled

\* variant: the failing batch skipped, the loop carried on
RaiseAndContinue ==
    /\ pc \in RaisePoints
    /\ error' = "Exception"
    /\ raisedAt' = pc
    /\ pc' = "train_iter"
    /\ grad_enabled' = GradEnabledAfterRaise
    /\ UNCHANGED <<splitVars, callVars, loopVars, lossVars, mode, params,
                   grads, optSteps, schedVars, generateCalls, trace, fs, run>>

Raise ==
    /\ pc \in RaisePoints
    /\ error' = "Exception"
    /\ raisedAt' = pc
    /\ pc' = "aborted"
    /\ grad_enabled' = GradEnabledAfterRaise
    /\ UNCHANGED <<splitVars, callVars, loopVars, lossVars, mode, params,
                   grads, optSteps, schedVars, generateCalls, trace, fs, run>>

\* ---- line 173 run again by a new process: the checkpoint root is fixed,
\* ---- the files of the earlier run are still there
Rerun ==
    /\ pc \in {"done", "aborted"}
    /\ run = 1
    /\ run' = run + 1
    /\ pc' = "setup"
    /\ epoch' = -1 /\ i' = -1 /\ pending' = BagOf(<<>>) /\ vpos' = 0
    /\ batch' = NoBatch /\ loss' = NoLoss
    /\ train_loss' = 0 /\ val_loss' = 0
    /\ avg_train_loss' = NoQuotient /\ avg_val_loss' = NoQuotient
    /\ mode' = "eval" /\ grad_enabled' = TRUE
    /\ params' = 0 /\ grads' = 0 /\ optSteps' = 0
    /\ num_training_steps' = 0 /\ last_epoch' = 0 /\ lr' = NoQuotient
    /\ generateCalls' = 0 /\ trace' = <<>>
    /\ error' = "none" /\ raisedAt' = "none"
    /\ UNCHANGED <<splitVars, callVars, fs>>

TrainStep ==
    \/ Setup \/ GetScheduler \/ ForEpoch \/ ModelTrain \/ TrainIter \/ Labels
    \/ Forward \/ Diagnostic \/ PrintLoss \/ Generate \/ Decode \/ Backward
    \/ OptimizerStep \/ SchedulerStep \/ ZeroGrad \/ Accumulate \/ AvgTrain
    \/ PrintAvgTrain \/ ModelEval \/ NoGrad \/ ValIter \/ ValLabels
    \/ ValForward \/ ValAccumulate \/ AvgVal \/ PrintAvgVal
    \/ MakeDirs \/ SaveModel \/ SaveProcessor

Next == TrainStep \/ Raise

Spec == Init /\ [][Next]_vars

NextRerun == TrainStep \/ Raise \/ Rerun

\* the validation set plays no part in what a checkpoint holds: one
\* validation batch, so that every epoch reaches its checkpoint
InitRerun == Init /\ val_loader = <<1>>

SpecRerun == InitRerun /\ [][NextRerun]_vars

\* ---- lines 42-44: the split of the generated data
InitSplit ==
    /\ data \in DataSets
    /\ train_data = <<>> /\ val_data = <<>>
    /\ Fresh(1, <<1>>, <<>>, EmptyFs, 1, "split")

Split ==
    /\ pc = "split"
    /\ train_data' = data_split(data)[1]
    /\ val_data' = data_split(data)[2]
    /\ pc' = "split_done"
    /\ UNCHANGED <<data, callVars, loopVars, lossVars, modelVars, schedVars,
                   generateCalls, trace, fs, error, raisedAt, run>>

SpecSplit == InitSplit /\ [][Split]_vars

\* ======================= properties =======================

\* where the run is, or was when it was aborted
At == IF pc = "aborted" THEN raisedAt ELSE pc

Range(s) == {s[k] : k \in DOMAIN s}
BagSum(bag) == SumSeq([b \in Batches |-> b * bag[b]])

\* the sum of the losses of a loader's batches
LoaderSum(loader) == BagSum(BagOf(loader))

\* zero-based position, within its epoch, of the batch being processed
BatchIndex == Len(train_loader) - BagSize(pending) - 1

\* epochs of this run that have written their checkpoint completely
Completed == IF pc \in {"for_epoch", "done"} THEN epoch + 1 ELSE epoch

SavePoints == {"makedirs", "save_model", "save_processor"}
ValPoints == {"val_iter", "val_labels", "val_forward", "val_accumulate"}
\* a batch has been fetched and the optimizer has not yet stepped for it
BeforeStep == {"labels", "forward", "diag", "print_loss", "generate",
               "decode", "backward", "opt_step"}
AfterDiag == {"backward", "opt_step", "sched_step", "zero_grad", "accumulate"}

FullCheckpoint(k) ==
    /\ k \in DOMAIN fs
    /\ fs[k].model # NoFile
    /\ fs[k].processor # NoFile

\* C1: data_split returns (train, val) with len(val) = len(data) // 10,
\* len(train) + len(val) = len(data), train followed by val being data in
\* its order (so the two share no position), val being the tail of data;
\* 10 samples give 9 training samples and 1 validation sample.
C1_Split ==
    pc = "split_done" =>
        /\ Len(val_data) = Len(data) \div 10
        /\ Len(train_data) + Len(val_data) = Len(data)
        /\ train_data \o val_data = data
        /\ \A k \in 1..Len(train_data) : train_data[k] = data[k]
        /\ \A k \in 1..Len(val_data) :
              val_data[k] = data[Len(data) - Len(val_data) + k]
        /\ (Len(data) = 10 => Len(train_data) = 9 /\ Len(val_data) = 1)

C1_Witness ==
    /\ pc = "split_done"
    /\ Len(data) = 10
    /\ Len(train_data) = 9
    /\ val_data = <<"b">>
    /\ data[1] = "a"

\* C2: optimizer.step has been invoked once per training batch processed,
\* so E*B times when train_model returns; the checkpoint directories are
\* epoch_1 .. epoch_k for the epochs that reached their checkpoint, the k-th
\* begun only after the training and validation phases of the k-th epoch;
\* a returned run of E epochs leaves exactly epoch_1 .. epoch_E, complete.
C2_StepsAndCheckpoints ==
    /\ optSteps =
          IF epoch < 0 THEN 0
          ELSE IF At = "model_train" THEN epoch * Len(train_loader)
          ELSE epoch * Len(train_loader) + (i + 1)
                 - (IF At \in BeforeStep THEN 1 ELSE 0)
    /\ DOMAIN fs =
          1..(IF At \in {"save_model", "save_processor"}
              THEN epoch + 1 ELSE Completed)
    /\ \A k \in 1..Completed : FullCheckpoint(k)
    /\ At \in SavePoints =>
          /\ optSteps = (epoch + 1) * Len(train_loader)
          /\ BagSize(pending) = 0
          /\ vpos = Len(val_loader)
    /\ pc = "done" =>
          /\ optSteps = epochs * Len(train_loader)
          /\ DOMAIN fs = 1..epochs
          /\ \A k \in 1..epochs : FullCheckpoint(k)

C2_Witness ==
    /\ pc = "done"
    /\ epochs = 1
    /\ Len(train_loader) = 1
    /\ optSteps = 1
    /\ DOMAIN fs = {1}
    /\ FullCheckpoint(1)

\* C3: the diagnostic path runs for a training batch exactly when the
\* batch's zero-based position within its epoch is divisible by 200; the
\* position restarts at 0 in every epoch.
C3_DiagnosticEvery200 ==
    pc \in AfterDiag =>
        /\ i = BatchIndex
        /\ ("diagnostic" \in Range(trace)) <=> (BatchIndex % 200 = 0)
        /\ generateCalls =
              epoch * ((Len(train_loader) + 199) \div 200)
                + (BatchIndex \div 200) + 1

C3_Witness ==
    /\ pc = "backward"
    /\ epoch = 1
    /\ BatchIndex = 200
    /\ "diagnostic" \in Range(trace)
    /\ generateCalls = 4

\* C4: the average training loss computed at the end of an epoch is the sum
\* of that epoch's per-batch losses, each counted once, divided by the number
\* of training batches; the accumulator restarts from 0 in every epoch.
C4_AverageTrainLoss ==
    /\ pc = "train_iter" =>
          train_loss = LoaderSum(train_loader) - BagSum(pending)
    /\ avg_train_loss # NoQuotient =>
          avg_train_loss =
             [num |-> LoaderSum(train_loader), den |-> Len(train_loader)]

C4_Witness ==
    /\ pc = "model_eval"
    /\ epoch = 1
    /\ train_loader = <<1, 2>>
    /\ avg_train_loss = [num |-> 3, den |-> 2]

\* a scheduler step lowers the rate by one N-th of the initial rate
C5_EachStepLower ==
    last_epoch' # last_epoch =>
        /\ last_epoch' = last_epoch + 1
        /\ lr'.den = lr.den
        /\ lr'.num = lr.num - 1
        /\ lr'.num >= 0

\* C5: with N = epochs * len(train_loader) and no warmup the learning rate
\* starts at the configured rate, is (N - s) / N of it after s scheduler
\* steps, goes down by the same amount at every scheduler step without ever
\* staying where it was, and is exactly zero when train_model returns.
C5_LinearDecay ==
    /\ [](At \notin {"setup", "get_scheduler"} =>
            /\ num_training_steps = epochs * Len(train_loader)
            /\ lr = [num |-> num_training_steps - last_epoch,
                     den |-> num_training_steps]
            /\ (last_epoch = 0 => lr.num = lr.den)
            /\ (lr.num = 0 <=> last_epoch = num_training_steps)
            /\ (pc = "done" => lr.num = 0))
    /\ [][C5_EachStepLower]_vars

C5_Witness ==
    /\ pc = "done"
    /\ epochs = 2
    /\ Len(train_loader) = 2
    /\ last_epoch = 4
    /\ lr = [num |-> 0, den |-> 4]

\* a step taken after an exception leaves the run's state alone
C6_NothingAfter ==
    error # "none" =>
        UNCHANGED <<optSteps, last_epoch, params, fs, i, vpos, pending,
                    epoch, train_loss, val_loss>>

\* C6: once an exception has been raised in epoch k the run is over: no
\* later step processes a batch, steps the optimizer or the scheduler or
\* touches the checkpoints, and when it was raised before the checkpoint of
\* epoch k was begun there is no directory for epoch k.
C6_ExceptionAborts ==
    /\ [](error # "none" =>
            /\ pc = "aborted"
            /\ (raisedAt \notin {"save_model", "save_processor"} =>
                   OutputDir(epoch) \notin DOMAIN fs)
            /\ \A k \in 1..epoch : FullCheckpoint(k))
    /\ [][C6_NothingAfter]_vars

C6_Witness ==
    /\ pc = "aborted"
    /\ error = "Exception"
    /\ raisedAt = "opt_step"
    /\ epoch = 1
    /\ DOMAIN fs = {1}
    /\ FullCheckpoint(1)

\* a step of the validation loop leaves these alone
C7_ValidationStep ==
    pc \in ValPoints =>
        UNCHANGED <<params, grads, optSteps, last_epoch, lr,
                    num_training_steps, generateCalls, train_loss,
                    avg_train_loss, fs, mode>>

\* C7: no step of the validation loop changes the model parameters, the
\* gradients, the optimizer's step count, the scheduler's step count or the
\* learning rate, runs a generation, or touches the training accumulator or
\* the checkpoints.
C7_ValidationFrame == [][C7_ValidationStep]_vars

C7_Witness ==
    /\ pc = "avg_val"
    /\ Len(val_loader) = 1
    /\ vpos = 1
    /\ val_loss = 2
    /\ optSteps = 2 * Len(train_loader)

\* every complete checkpoint is kept as it is
C8_WrittenStays ==
    \A k \in DOMAIN fs :
        FullCheckpoint(k) => (k \in DOMAIN fs' /\ fs'[k] = fs[k])

\* C8, as claimed: a checkpoint directory, once written completely, is never
\* changed or removed by any later step, of this run or of a later run.
C8_NeverMutated == [][C8_WrittenStays]_vars

\* directories are kept; this run's checkpoints are kept as they are
C8_WrittenStaysWithinRun ==
    /\ DOMAIN fs \subseteq DOMAIN fs'
    /\ run' = run =>
          \A k \in 1..Completed : k \in DOMAIN fs' /\ fs'[k] = fs[k]
    /\ fs' # fs => (pc \in SavePoints /\ run' = run)

\* C8, amended: no directory is ever removed; a checkpoint written by the
\* current run is not changed by any later step of that run; a run creates
\* the directory of an epoch only when that epoch reaches its checkpoint.
C8_NeverMutatedWithinRun == [][C8_WrittenStaysWithinRun]_vars

\* the second run has written epoch_1 and is about to write epoch_2, which
\* still holds what the first run left there
C8_Witness ==
    /\ run = 2
    /\ pc = "save_model"
    /\ epoch = 1
    /\ FullCheckpoint(1)
    /\ FullCheckpoint(2)
    /\ fs[2].model # <<params>>

\* C9: for every training batch the steps are forward, diagnostic when due,
\* backward, optimizer step, scheduler step, zeroing of gradients,
\* accumulation, in this order and once each; after every batch the
\* scheduler has stepped as often as the optimizer, and the gradients are
\* zero when a forward pass begins.
C9_StepOrder ==
    /\ (pc = "train_iter" /\ i >= 0) =>
          /\ trace =
               <<"forward">>
               \o (IF i % 200 = 0 THEN <<"diagnostic">> ELSE <<>>)
               \o <<"backward", "optimizer.step", "lr_scheduler.step",
                    "zero_grad", "accumulate">>
          /\ last_epoch = optSteps
          /\ grads = 0
    /\ pc = "forward" => grads = 0 /\ last_epoch = optSteps

C9_Witness ==
    /\ pc = "forward"
    /\ i = 1
    /\ optSteps = 1
    /\ last_epoch = 1
    /\ grads = 0

\* C10: with an empty validation loader the first epoch processes every
\* training batch, then the average validation loss raises
\* ZeroDivisionError; no checkpoint directory is ever created.  data_split
\* yields an empty validation part for every dataset of fewer than 10 samples.
C10_EmptyValidation ==
    /\ \A n \in 1..9 : data_split([k \in 1..n |-> "a"])[2] = <<>>
    /\ Len(val_loader) = 0 =>
          /\ DOMAIN fs = {}
          /\ pc \notin SavePoints \cup {"done"}
          /\ epoch <= 0
          /\ optSteps <= Len(train_loader)
          /\ error = "ZeroDivisionError" =>
                /\ raisedAt = "avg_val"
                /\ pc = "aborted"
                /\ epoch = 0
                /\ optSteps = Len(train_loader)
                /\ last_epoch = Len(train_loader)
                /\ BagSize(pending) = 0
          /\ pc = "avg_val" => ~ENABLED (AvgVal /\ pc' # "aborted")

C10_Witness ==
    /\ Len(val_loader) = 0
    /\ Len(train_loader) = 2
    /\ epochs = 2
    /\ pc = "aborted"
    /\ error = "ZeroDivisionError"
    /\ optSteps = 2
    /\ DOMAIN fs = {}

====
